---------------------------- MODULE Spec2Model ----------------------------
(***************************************************************************)
(* A model of proglog's storage engine: the Store (store.go), the Segment  *)
(* (segment.go), and the Index and Log the Segment is written against.     *)
(*                                                                         *)
(* Spec       the Log: Append / Read / Truncate / Close / reopen, on a     *)
(*            disk that never fails.                                       *)
(* SpecStore  one Store on a disk that may run out of space: Append /      *)
(*            Read / ReadAt / Close.                                       *)
(* SpecSegment    one Segment on such a disk: Append / Read / Close /      *)
(*                Remove / newSegment on its files, and the Log's Reader.  *)
(* SpecStoreConc  two concurrent callers of one Store, statement by        *)
(*                statement under the Store's mutex.                       *)
(* SpecLogConc    two concurrent callers of Log.Append under the Log's     *)
(*                lock.                                                    *)
(***************************************************************************)
EXTENDS Integers, Sequences, FiniteSets, TLC

(***************************************************************************)
(* Bounds of the model.                                                    *)
(***************************************************************************)
\* Log.Append calls in one behaviour of Spec.
MaxAppends == 3
\* Close-and-reopen cycles in one behaviour of Spec.
MaxReopens == 1
\* Log.Truncate calls in one behaviour of Spec.
MaxTruncates == 1
\* Store.Append calls in one behaviour of SpecStore.
MaxStoreAppends == 3
\* Append calls of the concurrent callers, all together, in one behaviour of
\* SpecStoreConc and of SpecLogConc.
MaxConcAppends == 3
\* Capacity of the bufio.Writer of a store.  bufio.NewWriter's default is
\* 4096 bytes; the model scales it down so that the writer's flush-when-full
\* path is taken with payloads of a few bytes.
BufSize == 12

(***************************************************************************)
(* Program constants.                                                      *)
(***************************************************************************)
\* store.go: # of bytes used to store the record's length.
lenWidth == 8
\* Width of one index entry: a 4-byte relative offset and an 8-byte position.
entWidth == 12

Nil == "nil"
ENOSPC == "ENOSPC"
EOF == "EOF"
ErrClosed == "closed"
ErrDecode == "decode"
ErrNotFound == "offset out of range"

Min(a, b) == IF a < b THEN a ELSE b

RECURSIVE Pow(_, _)
Pow(b, e) == IF e = 0 THEN 1 ELSE b * Pow(b, e - 1)

(***************************************************************************)
(* encoding/binary, BigEndian, uint64.  A length the model writes is below *)
(* 2^24, so its five high bytes are zeros.  Read back, eight bytes with a  *)
(* non-zero high byte are a number of at least 2^24, longer than any file  *)
(* the model reaches: Uint64 returns 2^24 for all of them.                 *)
(***************************************************************************)
PutUint64(n) ==
  [i \in 1..lenWidth |-> IF i <= lenWidth - 3 THEN 0
                         ELSE (n \div Pow(256, lenWidth - i)) % 256]

Uint64(b) ==
  IF \E i \in 1..(lenWidth - 3) : b[i] # 0
  THEN Pow(256, 3)
  ELSE b[lenWidth - 2] * 65536 + b[lenWidth - 1] * 256 + b[lenWidth]

(***************************************************************************)
(* os.File: a file opened with O_APPEND on a disk with `free` bytes left.  *)
(* dk = [limited |-> BOOLEAN, free |-> Nat].                               *)
(***************************************************************************)
\* File.Write: a short write returns the bytes written and ENOSPC.
FileWrite(file, closed, dk, bytes) ==
  IF closed THEN [file |-> file, dk |-> dk, n |-> 0, err |-> ErrClosed]
  ELSE LET n == IF dk.limited THEN Min(Len(bytes), dk.free) ELSE Len(bytes)
       IN [file |-> file \o SubSeq(bytes, 1, n),
           dk   |-> [dk EXCEPT !.free = IF dk.limited THEN @ - n ELSE @],
           n    |-> n,
           err  |-> IF n < Len(bytes) THEN ENOSPC ELSE Nil]

\* File.ReadAt(b, off) with len(b) = n: a non-nil error whenever fewer than
\* n bytes are read; reading 0 bytes succeeds at any offset.
FileReadAt(file, closed, n, off) ==
  IF closed THEN [b |-> <<>>, err |-> ErrClosed]
  ELSE IF n = 0 THEN [b |-> <<>>, err |-> Nil]
  ELSE IF off + n <= Len(file)
       THEN [b |-> SubSeq(file, off + 1, off + n), err |-> Nil]
       ELSE [b |-> SubSeq(file, off + 1, Len(file)), err |-> EOF]

(***************************************************************************)
(* bufio.Writer over the store's file.  A store is                         *)
(*   [file, buf, size, err, closed]                                        *)
(* file: the bytes of the underlying os.File; buf: the bytes the writer    *)
(* holds; err: the writer's sticky error; size: store.size.                *)
(***************************************************************************)
\* bufio.Writer.Flush
BufFlush(st, dk) ==
  IF st.err # Nil THEN [st |-> st, dk |-> dk, err |-> st.err]
  ELSE IF st.buf = <<>> THEN [st |-> st, dk |-> dk, err |-> Nil]
  ELSE LET w == FileWrite(st.file, st.closed, dk, st.buf)
       IN IF w.err # Nil
          THEN [st  |-> [st EXCEPT !.file = w.file,
                                   !.buf = SubSeq(st.buf, w.n + 1, Len(st.buf)),
                                   !.err = w.err],
                dk  |-> w.dk,
                err |-> w.err]
          ELSE [st  |-> [st EXCEPT !.file = w.file, !.buf = <<>>],
                dk  |-> w.dk,
                err |-> Nil]

\* bufio.Writer.Write: while p does not fit and no error has occurred, either
\* write p straight to the file (empty buffer) or fill the buffer and flush.
RECURSIVE BufWrite(_, _, _)
BufWrite(st, dk, p) ==
  IF Len(p) > BufSize - Len(st.buf) /\ st.err = Nil
  THEN IF st.buf = <<>>
       THEN LET w == FileWrite(st.file, st.closed, dk, p)
            IN BufWrite([st EXCEPT !.file = w.file, !.err = w.err],
                        w.dk, SubSeq(p, w.n + 1, Len(p)))
       ELSE LET n == BufSize - Len(st.buf)
                f == BufFlush([st EXCEPT !.buf = @ \o SubSeq(p, 1, n)], dk)
            IN BufWrite(f.st, f.dk, SubSeq(p, n + 1, Len(p)))
  ELSE IF st.err # Nil THEN [st |-> st, dk |-> dk, err |-> st.err]
  ELSE [st |-> [st EXCEPT !.buf = @ \o p], dk |-> dk, err |-> Nil]

(***************************************************************************)
(* store.go                                                                *)
(***************************************************************************)
\* newStore: the size is the size of the file that is opened.
newStore(file) ==
  [file |-> file, buf |-> <<>>, size |-> Len(file), err |-> Nil,
   closed |-> FALSE]

\* store.Append returning the position after the entry instead of the one
\* it begins at.
StoreAppend_posAfter(st, dk, p) ==
  LET w1 == BufWrite(st, dk, PutUint64(Len(p)))
  IN IF w1.err # Nil
     THEN [st |-> w1.st, dk |-> w1.dk, n |-> 0, pos |-> 0, err |-> w1.err]
     ELSE LET w2 == BufWrite(w1.st, w1.dk, p)
          IN IF w2.err # Nil
             THEN [st |-> w2.st, dk |-> w2.dk, n |-> 0, pos |-> 0,
                   err |-> w2.err]
             ELSE [st  |-> [w2.st EXCEPT !.size = @ + Len(p) + lenWidth],
                   dk  |-> w2.dk,
                   n   |-> Len(p) + lenWidth,
                   pos |-> st.size + Len(p) + lenWidth,
                   err |-> Nil]

\* store.Append counting the payload without its length prefix.
StoreAppend_noPrefix(st, dk, p) ==
  LET pos == st.size
      w1  == BufWrite(st, dk, PutUint64(Len(p)))
  IN IF w1.err # Nil
     THEN [st |-> w1.st, dk |-> w1.dk, n |-> 0, pos |-> 0, err |-> w1.err]
     ELSE LET w2 == BufWrite(w1.st, w1.dk, p)
          IN IF w2.err # Nil
             THEN [st |-> w2.st, dk |-> w2.dk, n |-> 0, pos |-> 0,
                   err |-> w2.err]
             ELSE [st  |-> [w2.st EXCEPT !.size = @ + Len(p)],
                   dk  |-> w2.dk,
                   n   |-> Len(p),
                   pos |-> pos,
                   err |-> Nil]

\* store.Append
StoreAppend(st, dk, p) ==
  LET pos == st.size
      w1  == BufWrite(st, dk, PutUint64(Len(p)))
  IN IF w1.err # Nil
     THEN [st |-> w1.st, dk |-> w1.dk, n |-> 0, pos |-> 0, err |-> w1.err]
     ELSE LET w2 == BufWrite(w1.st, w1.dk, p)
          IN IF w2.err # Nil
             THEN [st |-> w2.st, dk |-> w2.dk, n |-> 0, pos |-> 0,
                   err |-> w2.err]
             ELSE [st  |-> [w2.st EXCEPT !.size = @ + Len(p) + lenWidth],
                   dk  |-> w2.dk,
                   n   |-> Len(p) + lenWidth,
                   pos |-> pos,
                   err |-> Nil]

\* store.Read without the flush of the write buffer.
StoreRead_noFlush(st, dk, pos) ==
  LET size == FileReadAt(st.file, st.closed, lenWidth, pos)
  IN IF size.err # Nil
     THEN [st |-> st, dk |-> dk, b |-> <<>>, err |-> size.err]
     ELSE LET b == FileReadAt(st.file, st.closed, Uint64(size.b),
                              pos + lenWidth)
          IN IF b.err # Nil
             THEN [st |-> st, dk |-> dk, b |-> <<>>, err |-> b.err]
             ELSE [st |-> st, dk |-> dk, b |-> b.b, err |-> Nil]

\* store.Read
StoreRead(st, dk, pos) ==
  LET f == BufFlush(st, dk)
  IN IF f.err # Nil THEN [st |-> f.st, dk |-> f.dk, b |-> <<>>, err |-> f.err]
     ELSE LET size == FileReadAt(f.st.file, f.st.closed, lenWidth, pos)
          IN IF size.err # Nil
             THEN [st |-> f.st, dk |-> f.dk, b |-> <<>>, err |-> size.err]
             ELSE LET b == FileReadAt(f.st.file, f.st.closed, Uint64(size.b),
                                      pos + lenWidth)
                  IN IF b.err # Nil
                     THEN [st |-> f.st, dk |-> f.dk, b |-> <<>>, err |-> b.err]
                     ELSE [st |-> f.st, dk |-> f.dk, b |-> b.b, err |-> Nil]

\* store.ReadAt, reading n = len(p) bytes at off.
StoreReadAt(st, dk, n, off) ==
  LET f == BufFlush(st, dk)
  IN IF f.err # Nil THEN [st |-> f.st, dk |-> f.dk, b |-> <<>>, err |-> f.err]
     ELSE LET r == FileReadAt(f.st.file, f.st.closed, n, off)
          IN [st |-> f.st, dk |-> f.dk, b |-> r.b, err |-> r.err]

\* store.Close
StoreClose(st, dk) ==
  LET f == BufFlush(st, dk)
  IN IF f.err # Nil THEN [st |-> f.st, dk |-> f.dk, err |-> f.err]
     ELSE IF f.st.closed THEN [st |-> f.st, dk |-> f.dk, err |-> ErrClosed]
     ELSE [st |-> [f.st EXCEPT !.closed = TRUE], dk |-> f.dk, err |-> Nil]

(***************************************************************************)
(* api.Record and its protobuf encoding: field 1 (bytes) is Value, field 2 *)
(* (varint) is Offset; a field holding its zero value is not written.      *)
(* Offsets and lengths of the model are below 128: one varint byte.        *)
(***************************************************************************)
Marshal(record) ==
  (IF record.Value # <<>>
   THEN <<10, Len(record.Value)>> \o record.Value ELSE <<>>)
  \o (IF record.Offset # 0 THEN <<16, record.Offset>> ELSE <<>>)

RECURSIVE UnmarshalInto(_, _)
UnmarshalInto(b, record) ==
  IF b = <<>> THEN [record |-> record, err |-> Nil]
  ELSE IF Len(b) < 2 \/ b[2] >= 128 THEN [record |-> record, err |-> ErrDecode]
  ELSE IF b[1] = 10
       THEN IF Len(b) < 2 + b[2] THEN [record |-> record, err |-> ErrDecode]
            ELSE UnmarshalInto(SubSeq(b, 3 + b[2], Len(b)),
                               [record EXCEPT !.Value = SubSeq(b, 3, 2 + b[2])])
  ELSE IF b[1] = 16
       THEN UnmarshalInto(SubSeq(b, 3, Len(b)), [record EXCEPT !.Offset = b[2]])
  ELSE [record |-> record, err |-> ErrDecode]

Unmarshal(b) == UnmarshalInto(b, [Value |-> <<>>, Offset |-> 0])

(***************************************************************************)
(* The index: [ents, size, cap, closed].  ents: the entries written, each  *)
(* [off, pos]; size: entWidth times their number; cap: the length of the   *)
(* memory map, i.e. of the pre-sized file.  An index file on disk is       *)
(* [ents, len].                                                            *)
(***************************************************************************)
\* newIndex: the size is the file's size when opened; the file is then grown
\* to MaxIndexBytes and mapped.
newIndex(file, c) ==
  [ents |-> file.ents, size |-> file.len, cap |-> c.MaxIndexBytes]

\* index.Read: n = -1 reads the last entry.
IndexRead(idx, n) ==
  LET count == idx.size \div entWidth
  IN IF idx.size = 0 THEN [off |-> 0, pos |-> 0, err |-> EOF]
     ELSE IF n = -1
          THEN [off |-> idx.ents[count].off, pos |-> idx.ents[count].pos,
                err |-> Nil]
     ELSE IF n < 0 \/ n >= count THEN [off |-> 0, pos |-> 0, err |-> EOF]
     ELSE [off |-> idx.ents[n + 1].off, pos |-> idx.ents[n + 1].pos,
           err |-> Nil]

\* index.Write: fails when the map has no room for one more entry.
IndexWrite(idx, off, pos) ==
  IF idx.cap < idx.size + entWidth THEN [idx |-> idx, err |-> EOF]
  ELSE [idx |-> [idx EXCEPT !.ents = Append(@, [off |-> off, pos |-> pos]),
                            !.size = @ + entWidth],
        err |-> Nil]

\* index.Close: sync the map and truncate the file to the logical size.
IndexClose(idx) == [idx |-> [idx EXCEPT !.cap = idx.size], err |-> Nil]

\* The file of an index, as the directory holds it.
IndexFile(idx) == [ents |-> idx.ents, len |-> idx.cap]

(***************************************************************************)
(* segment.go.  A segment is [store, index, baseOffset, nextOffset,        *)
(* config]; a directory maps a base offset to the two files named by it,   *)
(* [store, index].                                                         *)
(***************************************************************************)
EmptyIndexFile == [ents |-> <<>>, len |-> 0]

\* newSegment recovering nextOffset as baseOffset + the last relative offset,
\* without the + 1.
newSegment_noPlusOne(dir, baseOffset, c) ==
  LET storeFile == IF baseOffset \in DOMAIN dir THEN dir[baseOffset].store
                   ELSE <<>>
      indexFile == IF baseOffset \in DOMAIN dir THEN dir[baseOffset].index
                   ELSE EmptyIndexFile
      index     == newIndex(indexFile, c)
      last      == IndexRead(index, -1)
  IN [store      |-> newStore(storeFile),
      index      |-> index,
      baseOffset |-> baseOffset,
      nextOffset |-> IF last.err # Nil THEN baseOffset
                     ELSE baseOffset + last.off,
      config     |-> c]

\* newSegment recovering nextOffset as the last relative offset + 1, without
\* the baseOffset.
newSegment_noBase(dir, baseOffset, c) ==
  LET storeFile == IF baseOffset \in DOMAIN dir THEN dir[baseOffset].store
                   ELSE <<>>
      indexFile == IF baseOffset \in DOMAIN dir THEN dir[baseOffset].index
                   ELSE EmptyIndexFile
      index     == newIndex(indexFile, c)
      last      == IndexRead(index, -1)
  IN [store      |-> newStore(storeFile),
      index      |-> index,
      baseOffset |-> baseOffset,
      nextOffset |-> IF last.err # Nil THEN baseOffset
                     ELSE last.off + 1,
      config     |-> c]

\* newSegment: opens (O_CREATE) the two files named by baseOffset.
newSegment(dir, baseOffset, c) ==
  LET storeFile == IF baseOffset \in DOMAIN dir THEN dir[baseOffset].store
                   ELSE <<>>
      indexFile == IF baseOffset \in DOMAIN dir THEN dir[baseOffset].index
                   ELSE EmptyIndexFile
      index     == newIndex(indexFile, c)
      last      == IndexRead(index, -1)
  IN [store      |-> newStore(storeFile),
      index      |-> index,
      baseOffset |-> baseOffset,
      nextOffset |-> IF last.err # Nil THEN baseOffset
                     ELSE baseOffset + last.off + 1,
      config     |-> c]

\* segment.Append without the increment of nextOffset.
SegAppendIndexed_noInc(s, a, w) ==
  IF w.err # Nil
  THEN [s |-> [s EXCEPT !.store = a.st], dk |-> a.dk, offset |-> 0,
        err |-> w.err]
  ELSE [s |-> [s EXCEPT !.store = a.st, !.index = w.idx],
        dk |-> a.dk, offset |-> s.nextOffset, err |-> Nil]

\* segment.Append increasing nextOffset by two.
SegAppendIndexed_incTwo(s, a, w) ==
  IF w.err # Nil
  THEN [s |-> [s EXCEPT !.store = a.st], dk |-> a.dk, offset |-> 0,
        err |-> w.err]
  ELSE [s |-> [s EXCEPT !.store = a.st, !.index = w.idx, !.nextOffset = @ + 2],
        dk |-> a.dk, offset |-> s.nextOffset, err |-> Nil]

\* segment.Append returning nextOffset as it is after the increment.
SegAppendIndexed_retNext(s, a, w) ==
  IF w.err # Nil
  THEN [s |-> [s EXCEPT !.store = a.st], dk |-> a.dk, offset |-> 0,
        err |-> w.err]
  ELSE [s |-> [s EXCEPT !.store = a.st, !.index = w.idx, !.nextOffset = @ + 1],
        dk |-> a.dk, offset |-> s.nextOffset + 1, err |-> Nil]

\* segment.Append counting the record although the index write failed.
SegAppendIndexed_incOnFail(s, a, w) ==
  IF w.err # Nil
  THEN [s |-> [s EXCEPT !.store = a.st, !.nextOffset = @ + 1], dk |-> a.dk,
        offset |-> 0, err |-> w.err]
  ELSE [s |-> [s EXCEPT !.store = a.st, !.index = w.idx, !.nextOffset = @ + 1],
        dk |-> a.dk, offset |-> s.nextOffset, err |-> Nil]

\* segment.Append, from the index write on: a is what store.Append returned,
\* w what index.Write returned.
SegAppendIndexed(s, a, w) ==
  IF w.err # Nil
  THEN [s |-> [s EXCEPT !.store = a.st], dk |-> a.dk, offset |-> 0,
        err |-> w.err]
  ELSE [s |-> [s EXCEPT !.store = a.st, !.index = w.idx, !.nextOffset = @ + 1],
        dk |-> a.dk, offset |-> s.nextOffset, err |-> Nil]

\* segment.Append writing the absolute offset into the index entry.
SegAppendStored_absolute(s, a) ==
  IF a.err # Nil
  THEN [s |-> [s EXCEPT !.store = a.st], dk |-> a.dk, offset |-> 0,
        err |-> a.err]
  ELSE SegAppendIndexed(s, a, IndexWrite(s.index, s.nextOffset, a.pos))

\* segment.Append writing the store's size after the append into the index
\* entry, instead of the position store.Append returned.
SegAppendStored_sizePos(s, a) ==
  IF a.err # Nil
  THEN [s |-> [s EXCEPT !.store = a.st], dk |-> a.dk, offset |-> 0,
        err |-> a.err]
  ELSE SegAppendIndexed(s, a,
         IndexWrite(s.index, s.nextOffset - s.baseOffset, a.st.size))

\* segment.Append, from the store append on: a is what store.Append returned.
SegAppendStored(s, a) ==
  IF a.err # Nil
  THEN [s |-> [s EXCEPT !.store = a.st], dk |-> a.dk, offset |-> 0,
        err |-> a.err]
  ELSE SegAppendIndexed(s, a,
         IndexWrite(s.index, s.nextOffset - s.baseOffset, a.pos))

\* segment.Append
SegAppend(s, dk, record) ==
  SegAppendStored(s,
    StoreAppend(s.store, dk, Marshal([record EXCEPT !.Offset = s.nextOffset])))

\* segment.Read moving nextOffset past the record it returns.
SegReadStored_consume(s, r) ==
  IF r.err # Nil
  THEN [s |-> [s EXCEPT !.store = r.st], dk |-> r.dk, record |-> <<>>,
        err |-> r.err]
  ELSE LET u == Unmarshal(r.b)
       IN [s |-> [s EXCEPT !.store = r.st, !.nextOffset = u.record.Offset + 1],
           dk |-> r.dk, record |-> u.record, err |-> u.err]

\* segment.Read, from the store read on: r is what store.Read returned.
SegReadStored(s, r) ==
  IF r.err # Nil
  THEN [s |-> [s EXCEPT !.store = r.st], dk |-> r.dk, record |-> <<>>,
        err |-> r.err]
  ELSE LET u == Unmarshal(r.b)
       IN [s |-> [s EXCEPT !.store = r.st], dk |-> r.dk, record |-> u.record,
           err |-> u.err]

\* segment.Read looking the absolute offset up in the index.
SegRead_absolute(s, dk, off) ==
  LET e == IndexRead(s.index, off)
  IN IF e.err # Nil
     THEN [s |-> s, dk |-> dk, record |-> <<>>, err |-> e.err]
     ELSE SegReadStored(s, StoreRead(s.store, dk, e.pos))

\* segment.Read.  off - s.baseOffset wraps as a uint64 and int64() reads the
\* result back as signed: for offsets below 2^63 that is the signed
\* difference, negative when off < baseOffset.
SegRead(s, dk, off) ==
  LET e == IndexRead(s.index, off - s.baseOffset)
  IN IF e.err # Nil
     THEN [s |-> s, dk |-> dk, record |-> <<>>, err |-> e.err]
     ELSE SegReadStored(s, StoreRead(s.store, dk, e.pos))

\* segment.IsMaxed looking at the store alone.
IsMaxed_storeOnly(s) ==
  s.store.size >= s.config.MaxStoreBytes

\* segment.IsMaxed
IsMaxed(s) ==
  \/ s.store.size >= s.config.MaxStoreBytes
  \/ s.index.size >= s.config.MaxIndexBytes

\* segment.Close, from the store's close on.  calls lists the calls Close
\* made on the index and the store, in the order it made them.
SegCloseStore(s, i, c) ==
  [s |-> [s EXCEPT !.index = i.idx, !.store = c.st], dk |-> c.dk, err |-> c.err,
   calls |-> <<"index.Close", "store.Close">>]

\* segment.Close closing the store before the index.
SegClose_storeFirst(s, dk) ==
  LET c == StoreClose(s.store, dk)
  IN IF c.err # Nil
     THEN [s |-> [s EXCEPT !.store = c.st], dk |-> c.dk, err |-> c.err,
           calls |-> <<"store.Close">>]
     ELSE [s |-> [s EXCEPT !.store = c.st, !.index = IndexClose(s.index).idx],
           dk |-> c.dk, err |-> IndexClose(s.index).err,
           calls |-> <<"store.Close", "index.Close">>]

\* segment.Close: the index, then the store.
SegClose(s, dk) ==
  LET i == IndexClose(s.index)
  IN IF i.err # Nil
     THEN [s |-> s, dk |-> dk, err |-> i.err, calls |-> <<"index.Close">>]
     ELSE SegCloseStore(s, i, StoreClose(s.store, dk))

\* segment.Remove taking a Close that succeeded for one that failed.
SegRemoveClosed_inverted(c) ==
  [s |-> c.s, dk |-> c.dk,
   err |-> IF c.err = Nil THEN ErrClosed ELSE c.err,
   removed |-> FALSE, calls |-> c.calls]

\* segment.Remove, after Close returned c: os.Remove of the index and the
\* store file; removed tells whether the files were deleted.
SegRemoveClosed(c) ==
  [s |-> c.s, dk |-> c.dk, err |-> c.err, removed |-> c.err = Nil,
   calls |-> IF c.err # Nil THEN c.calls
             ELSE c.calls \o <<"os.Remove(index)", "os.Remove(store)">>]

\* segment.Remove
SegRemove(s, dk) == SegRemoveClosed(SegClose(s, dk))

(***************************************************************************)
(* The Log: the segments in ascending baseOffset order, the last one       *)
(* active.                                                                 *)
(***************************************************************************)
VARIABLES
  config,     \* Config.Segment: MaxStoreBytes, MaxIndexBytes, InitialOffset
  segments,   \* Log.segments; <<>> while the Log is closed
  open,       \* whether the Log is open
  disk,       \* the directory: base offset |-> [store, index] files
  dk,         \* the disk's free space
  appends,    \* Log.Append calls so far
  reopens,    \* close-and-reopen cycles so far
  truncs,     \* Log.Truncate calls so far
  hist,       \* the successful Log.Appends, in order: [off, value]
  lastRet,    \* the last Log.Append: what it returned (off, err), whether it
              \* was the first call after a reopen (fresh) and the first into
              \* its segment (first), and that segment's nextOffset before
              \* and after the call
  lastTrunc,  \* the last Log.Truncate: its argument (lowest, -1 before the
              \* first call), the highest argument of any call so far
              \* (highest), and the segments it left: how many (kept) and
              \* the oldest one's nextOffset (oldestNext)
  fresh,      \* the Log was reopened and Log.Append not called since
  st,         \* SpecStore: the store
  sret,       \* SpecStore: the successful Appends, in order: what was
              \* appended and returned, [pos, n, p], and the store's size
              \* before and after the call
  scalls,     \* SpecStore: store.Append calls so far
  sread,      \* SpecStore: what the last store.Read returned: [pos, b, err]
  sfail,      \* SpecStore: the error of the first call that failed, or Nil
  sinit,      \* SpecStore: the store's size when it was opened
  seg,        \* SpecSegment: the segment
  segState,   \* SpecSegment: "open", "closed" or "removed"
  segHist,    \* SpecSegment: the successful Appends, in order:
              \* [off, pos, value]
  segFails,   \* SpecSegment: the Appends whose store append succeeded and
              \* whose index write failed, in order: [off, value, k], k the
              \* number of successful Appends before the call
  segLast,    \* SpecSegment: the last call and what it did
  mu,         \* concurrent callers: the caller holding the lock, 0 if none
  pc,         \* concurrent callers: where each caller is
  loc         \* concurrent callers: each caller's local variables

vars == <<config, segments, open, disk, dk, appends, reopens, truncs, hist,
          lastRet, lastTrunc, fresh, st, sret, scalls, sread, sfail, sinit,
          seg, segState, segHist, segFails, segLast, mu, pc, loc>>

logVars == <<config, segments, open, disk, appends, reopens, truncs, hist,
             lastRet, lastTrunc, fresh>>

storeVars == <<st, sret, scalls, sread, sfail, sinit>>

segVars == <<seg, segState, segHist, segFails, segLast>>

concVars == <<mu, pc, loc>>

\* Record values the callers append.
Values == {<<>>, <<1, 2>>}

\* The configurations: the store cap reached first, on a log that starts at
\* a later offset; the index cap of exactly two entries; an index cap that is
\* not a multiple of the entry width.
Configs ==
  { [MaxStoreBytes |-> 14,  MaxIndexBytes |-> 10 * entWidth, InitialOffset |-> 2],
    [MaxStoreBytes |-> 100, MaxIndexBytes |-> 2 * entWidth,  InitialOffset |-> 0],
    [MaxStoreBytes |-> 100, MaxIndexBytes |-> 2 * entWidth + 6, InitialOffset |-> 0] }

\* The offsets callers read at: every offset up to the highest that can be
\* assigned, and one past it.
Offsets == 0 .. (MaxAppends + 2)

\* The offsets callers truncate at: inside a segment, at a segment's end,
\* and above every offset that can be assigned.
Lowests == {1, 2, 4, MaxAppends + 2}

NoLimit == [limited |-> FALSE, free |-> 0]

Active(segs) == segs[Len(segs)]

\* The directory as the open segments' files make it.
DirOf(segs) ==
  [b \in {segs[i].baseOffset : i \in 1..Len(segs)} |->
     LET s == CHOOSE x \in {segs[i] : i \in 1..Len(segs)} : x.baseOffset = b
     IN [store |-> s.store.file, index |-> IndexFile(s.index)]]

\* The ascending sequence of the numbers of a finite set.
RECURSIVE Sorted(_)
Sorted(S) ==
  IF S = {} THEN <<>>
  ELSE LET m == CHOOSE x \in S : \A y \in S : x <= y
       IN <<m>> \o Sorted(S \ {m})

\* NewLog / setup: one segment per base offset found in the directory, in
\* ascending order; a segment at InitialOffset when there is none.
LogSetup(dir, c) ==
  IF DOMAIN dir = {} THEN <<newSegment(dir, c.InitialOffset, c)>>
  ELSE LET bases == Sorted(DOMAIN dir)
       IN [i \in 1..Len(bases) |-> newSegment(dir, bases[i], c)]

\* Log.Append, after the active segment's Append returned a: a new segment at
\* its nextOffset when it reports IsMaxed.
LogAppended(segs, a) ==
  IF a.err # Nil
  THEN [segs |-> [segs EXCEPT ![Len(segs)] = a.s], dk |-> a.dk, off |-> 0,
        err |-> a.err]
  ELSE IF IsMaxed(a.s)
       THEN [segs |-> Append([segs EXCEPT ![Len(segs)] = a.s],
                             newSegment(DirOf([segs EXCEPT ![Len(segs)] = a.s]),
                                        a.s.nextOffset, a.s.config)),
             dk |-> a.dk, off |-> a.offset, err |-> Nil]
       ELSE [segs |-> [segs EXCEPT ![Len(segs)] = a.s], dk |-> a.dk,
             off |-> a.offset, err |-> Nil]

\* Log.Append: through the active segment.
LogAppendTo(segs, d, record) ==
  LogAppended(segs, SegAppend(Active(segs), d, record))

\* The segment whose [baseOffset, nextOffset) holds off; 0 when none does.
Owner(segs, off) ==
  IF \E i \in 1..Len(segs) :
       segs[i].baseOffset <= off /\ off < segs[i].nextOffset
  THEN CHOOSE i \in 1..Len(segs) :
         segs[i].baseOffset <= off /\ off < segs[i].nextOffset
  ELSE 0

\* Log.Read, after the owner's Read returned r.
LogReadDone(segs, i, r) ==
  [segs |-> [segs EXCEPT ![i] = r.s], dk |-> r.dk, record |-> r.record,
   err |-> r.err]

\* Log.Read
LogReadAt(segs, d, off) ==
  IF Owner(segs, off) = 0
  THEN [segs |-> segs, dk |-> d, record |-> <<>>, err |-> ErrNotFound]
  ELSE LogReadDone(segs, Owner(segs, off),
                   SegRead(segs[Owner(segs, off)], d, off))

\* Log.LowestOffset
LowestOffset(segs) == segs[1].baseOffset

\* Log.HighestOffset: nextOffset - 1 of the active segment; the empty-log
\* sentinel when the Log holds no record.
HighestOffset(segs) ==
  IF \A i \in 1..Len(segs) : segs[i].nextOffset = segs[i].baseOffset
  THEN [empty |-> TRUE, off |-> 0]
  ELSE [empty |-> FALSE, off |-> Active(segs).nextOffset - 1]

\* Log.Truncate: removes, oldest first, every segment whose whole range lies
\* below lowest, the active segment excepted; stops at the first error.
RECURSIVE LogTruncateTo(_, _, _)
LogTruncateRemoved(segs, r, lowest) ==
  IF r.err # Nil \/ ~r.removed
  THEN [segs |-> [segs EXCEPT ![1] = r.s], dk |-> r.dk, err |-> r.err]
  ELSE LogTruncateTo(Tail(segs), r.dk, lowest)

LogTruncateTo(segs, d, lowest) ==
  IF Len(segs) > 1 /\ segs[1].nextOffset <= lowest
  THEN LogTruncateRemoved(segs, SegRemove(segs[1], d), lowest)
  ELSE [segs |-> segs, dk |-> d, err |-> Nil]

\* Log.Close: closes every segment in order; stops at the first error.
RECURSIVE LogCloseAll(_, _, _)
LogCloseClosed(segs, c, i) ==
  IF c.err # Nil
  THEN [segs |-> [segs EXCEPT ![i] = c.s], dk |-> c.dk, err |-> c.err]
  ELSE LogCloseAll([segs EXCEPT ![i] = c.s], c.dk, i + 1)

LogCloseAll(segs, d, i) ==
  IF i > Len(segs) THEN [segs |-> segs, dk |-> d, err |-> Nil]
  ELSE LogCloseClosed(segs, SegClose(segs[i], d), i)

\* Log.Reader, read to its end: the raw bytes of every segment's store, in
\* ascending baseOffset order, each read through store.ReadAt from position
\* 0; stops at the first error.
RECURSIVE LogReaderFrom(_, _, _, _)
LogReaderRead(segs, r, i, b) ==
  IF r.err # Nil
  THEN [segs |-> [segs EXCEPT ![i].store = r.st], dk |-> r.dk, b |-> b,
        err |-> r.err]
  ELSE LogReaderFrom([segs EXCEPT ![i].store = r.st], r.dk, i + 1, b \o r.b)

LogReaderFrom(segs, d, i, b) ==
  IF i > Len(segs) THEN [segs |-> segs, dk |-> d, b |-> b, err |-> Nil]
  ELSE LogReaderRead(segs,
         StoreReadAt(segs[i].store, d, segs[i].store.size, 0), i, b)

LogReader(segs, d) == LogReaderFrom(segs, d, 1, <<>>)

(***************************************************************************)
(* Spec: the Log's operations, one action each.                            *)
(***************************************************************************)
\* The callers that run concurrently in SpecStoreConc and SpecLogConc.
Procs == {1, 2}

\* A segment call that has not been made.
NoCall == [op |-> "none", off |-> 0, err |-> Nil, record |-> <<>>,
           storeOK |-> FALSE, calls |-> <<>>, removed |-> FALSE,
           before |-> <<>>, after |-> <<>>]

\* The local variables of a caller that has made no call: the method (op),
\* its arguments (p, pos, n), what it computed (cur, a) and returned (b,
\* err), and how many Appends had returned when it took the lock (seen).
NoLocal == [op |-> "none", p |-> <<>>, pos |-> 0, n |-> 0, cur |-> 0,
            a |-> <<>>, b |-> <<>>, err |-> Nil, seen |-> 0]

\* No segment is used on its own.
SegIdle ==
  /\ seg = newSegment(DirOf(<<>>), config.InitialOffset, config)
  /\ segState = "closed"
  /\ segHist = <<>> /\ segFails = <<>> /\ segLast = NoCall

\* No caller runs concurrently with another.
ConcIdle ==
  /\ mu = 0
  /\ pc = [p \in Procs |-> "idle"]
  /\ loc = [p \in Procs |-> NoLocal]

NoRet == [off |-> 0, err |-> Nil, fresh |-> FALSE, first |-> FALSE,
          before |-> 0, after |-> 0]

NoTrunc == [lowest |-> -1, highest |-> -1, kept |-> 0, oldestNext |-> 0]

NoRead == [pos |-> 0, b |-> <<>>, err |-> "no read yet"]

Init ==
  /\ config \in Configs
  /\ segments = LogSetup(DirOf(<<>>), config)
  /\ disk = DirOf(segments)
  /\ open = TRUE
  /\ dk = NoLimit
  /\ appends = 0 /\ reopens = 0 /\ truncs = 0
  /\ hist = <<>>
  /\ lastRet = NoRet
  /\ lastTrunc = NoTrunc
  /\ fresh = FALSE
  /\ st = newStore(<<>>) /\ sret = <<>> /\ scalls = 0 /\ sread = NoRead
  /\ sfail = Nil /\ sinit = 0
  /\ SegIdle /\ ConcIdle

LogAppend(v) ==
  /\ open /\ appends < MaxAppends
  /\ LET r == LogAppendTo(segments, dk, [Value |-> v, Offset |-> 0])
     IN /\ segments' = r.segs
        /\ dk' = r.dk
        /\ disk' = DirOf(r.segs)
        /\ hist' = IF r.err = Nil THEN Append(hist, [off |-> r.off, value |-> v])
                   ELSE hist
        /\ lastRet' = [off |-> r.off, err |-> r.err, fresh |-> fresh,
                       first |-> Active(segments).nextOffset
                                   = Active(segments).baseOffset,
                       before |-> Active(segments).nextOffset,
                       after |-> r.segs[Len(segments)].nextOffset]
  /\ appends' = appends + 1
  /\ fresh' = FALSE
  /\ UNCHANGED <<config, open, reopens, truncs, lastTrunc, storeVars, segVars, concVars>>

LogRead(off) ==
  /\ open
  /\ LET r == LogReadAt(segments, dk, off)
     IN /\ segments' = r.segs
        /\ dk' = r.dk
        /\ disk' = DirOf(r.segs)
  /\ UNCHANGED <<config, open, appends, reopens, truncs, hist, lastRet, lastTrunc,
                 fresh, storeVars, segVars, concVars>>

LogTruncate(lowest) ==
  /\ open /\ truncs < MaxTruncates
  /\ LET r == LogTruncateTo(segments, dk, lowest)
     IN /\ segments' = r.segs
        /\ dk' = r.dk
        /\ disk' = DirOf(r.segs)
        /\ lastTrunc' = [lowest |-> lowest,
                         highest |-> IF lowest > lastTrunc.highest
                                     THEN lowest ELSE lastTrunc.highest,
                         kept |-> Len(r.segs),
                         oldestNext |-> r.segs[1].nextOffset]
  /\ truncs' = truncs + 1
  /\ UNCHANGED <<config, open, appends, reopens, hist, lastRet, fresh,
                 storeVars, segVars, concVars>>

LogClose ==
  /\ open /\ reopens < MaxReopens
  /\ LET r == LogCloseAll(segments, dk, 1)
     IN /\ disk' = DirOf(r.segs)
        /\ dk' = r.dk
  /\ segments' = <<>>
  /\ open' = FALSE
  /\ UNCHANGED <<config, appends, reopens, truncs, hist, lastRet, lastTrunc, fresh,
                 storeVars, segVars, concVars>>

LogOpen ==
  /\ ~open
  /\ segments' = LogSetup(disk, config)
  /\ disk' = DirOf(segments')
  /\ open' = TRUE
  /\ reopens' = reopens + 1
  /\ fresh' = TRUE
  /\ UNCHANGED <<config, dk, appends, truncs, hist, lastRet, lastTrunc, storeVars, segVars, concVars>>

Next ==
  \/ \E v \in Values : LogAppend(v)
  \/ \E off \in Offsets : LogRead(off)
  \/ \E lowest \in Lowests : LogTruncate(lowest)
  \/ LogClose
  \/ LogOpen

Spec == Init /\ [][Next]_vars

(***************************************************************************)
(* SpecStore: one Store, opened on an empty file or on a file that already *)
(* holds a record, on a disk with little or unlimited free space.          *)
(***************************************************************************)
Payloads == {<<>>, <<1, 2>>, <<3, 4, 5, 6, 7>>}

InitialFiles == {<<>>, PutUint64(1) \o <<9>>}

Disks == {NoLimit} \cup {[limited |-> TRUE, free |-> f] : f \in {0, 10, 20}}

\* The positions and lengths callers read at.
Positions == {0, 1, 8, 9, 10, 18, 19, 21, 23, 31, 40}

\* The Log is closed and empty throughout: only the store moves.
InitStore ==
  /\ config \in {c \in Configs : c.InitialOffset = 2}
  /\ segments = <<>>
  /\ disk = DirOf(<<>>)
  /\ open = FALSE
  /\ dk \in Disks
  /\ appends = 0 /\ reopens = 0 /\ truncs = 0
  /\ hist = <<>>
  /\ lastRet = NoRet
  /\ lastTrunc = NoTrunc
  /\ fresh = FALSE
  /\ \E f \in InitialFiles : st = newStore(f)
  /\ sinit = st.size
  /\ sret = <<>> /\ scalls = 0 /\ sread = NoRead
  /\ sfail = Nil
  /\ SegIdle /\ ConcIdle

Append_(p) ==
  /\ scalls < MaxStoreAppends
  /\ LET r == StoreAppend(st, dk, p)
     IN /\ st' = r.st
        /\ dk' = r.dk
        /\ sret' = IF r.err = Nil
                   THEN Append(sret, [pos |-> r.pos, n |-> r.n, p |-> p,
                                     before |-> st.size,
                                     after |-> r.st.size])
                   ELSE sret
        /\ sfail' = IF sfail = Nil THEN r.err ELSE sfail
  /\ scalls' = scalls + 1
  /\ UNCHANGED <<logVars, segVars, concVars, sread, sinit>>

Read(pos) ==
  /\ LET r == StoreRead(st, dk, pos)
     IN /\ st' = r.st
        /\ dk' = r.dk
        /\ sread' = [pos |-> pos, b |-> r.b, err |-> r.err]
        /\ sfail' = IF sfail = Nil THEN r.err ELSE sfail
  /\ UNCHANGED <<logVars, segVars, concVars, sret, scalls, sinit>>

ReadAt(n, off) ==
  /\ LET r == StoreReadAt(st, dk, n, off)
     IN /\ st' = r.st
        /\ dk' = r.dk
  /\ UNCHANGED <<logVars, segVars, concVars, sret, scalls, sread, sfail, sinit>>

Close ==
  /\ LET r == StoreClose(st, dk)
     IN /\ st' = r.st
        /\ dk' = r.dk
  /\ UNCHANGED <<logVars, segVars, concVars, sret, scalls, sread, sfail, sinit>>

NextStore ==
  \/ \E p \in Payloads : Append_(p)
  \/ \E pos \in Positions : Read(pos)
  \/ \E n \in {0, 3}, off \in {0, 8} : ReadAt(n, off)
  \/ Close

SpecStore == InitStore /\ [][NextStore]_vars

(***************************************************************************)
(* SpecSegment: one segment used on its own, on a disk with little or      *)
(* unlimited free space: Append / Read / Close / Remove, the Log's Reader  *)
(* over it, and newSegment on the files it left, possibly with a larger    *)
(* MaxIndexBytes.                                                          *)
(***************************************************************************)
\* An index of one entry and one of three, at base offsets 0 and 2.
SegConfigs ==
  { [MaxStoreBytes |-> 100, MaxIndexBytes |-> m, InitialOffset |-> b] :
      m \in {entWidth, 3 * entWidth}, b \in {0, 2} }

SegDisks == {NoLimit} \cup {[limited |-> TRUE, free |-> f] : f \in {0, 14}}

\* The offsets callers read a segment at: below its baseOffset, in its range
\* and above it.
SegOffsets == 0 .. (MaxAppends + 3)

StoreIdle ==
  /\ st = newStore(<<>>) /\ sret = <<>> /\ scalls = 0 /\ sread = NoRead
  /\ sfail = Nil /\ sinit = 0

LogIdle ==
  /\ segments = <<>> /\ open = FALSE
  /\ appends = 0 /\ reopens = 0 /\ truncs = 0
  /\ hist = <<>> /\ lastRet = NoRet /\ lastTrunc = NoTrunc /\ fresh = FALSE

InitSegment ==
  /\ config \in SegConfigs
  /\ dk \in SegDisks
  /\ seg = newSegment(DirOf(<<>>), config.InitialOffset, config)
  /\ disk = DirOf(<<seg>>)
  /\ segState = "open"
  /\ segHist = <<>> /\ segFails = <<>> /\ segLast = NoCall
  /\ LogIdle /\ StoreIdle /\ ConcIdle

SegmentAppend(v) ==
  /\ segState = "open" /\ appends < MaxAppends
  /\ LET record == [Value |-> v, Offset |-> 0]
         a == StoreAppend(seg.store, dk,
                          Marshal([record EXCEPT !.Offset = seg.nextOffset]))
         r == SegAppend(seg, dk, record)
     IN /\ seg' = r.s
        /\ dk' = r.dk
        /\ disk' = DirOf(<<r.s>>)
        /\ segHist' = IF r.err = Nil
                      THEN Append(segHist,
                                  [off |-> r.offset,
                                   pos |-> Len(seg.store.file) + Len(seg.store.buf),
                                   value |-> v])
                      ELSE segHist
        /\ segFails' = IF a.err = Nil /\ r.err # Nil
                       THEN Append(segFails, [off |-> seg.nextOffset, value |-> v,
                                              k |-> Len(segHist)])
                       ELSE segFails
        /\ segLast' = [NoCall EXCEPT !.op = "Append", !.off = r.offset,
                                     !.err = r.err, !.storeOK = (a.err = Nil),
                                     !.before = seg, !.after = r.s]
  /\ appends' = appends + 1
  /\ UNCHANGED <<config, segments, open, reopens, truncs, hist, lastRet,
                 lastTrunc, fresh, segState, storeVars, concVars>>

SegmentRead(off) ==
  /\ segState = "open"
  /\ LET r == SegRead(seg, dk, off)
     IN /\ seg' = r.s
        /\ dk' = r.dk
        /\ disk' = DirOf(<<r.s>>)
        /\ segLast' = [NoCall EXCEPT !.op = "Read", !.off = off, !.err = r.err,
                                     !.record = r.record,
                                     !.before = seg, !.after = r.s]
  /\ UNCHANGED <<config, segments, open, appends, reopens, truncs, hist,
                 lastRet, lastTrunc, fresh, segState, segHist, segFails,
                 storeVars, concVars>>

SegmentReader ==
  /\ segState = "open"
  /\ LET r == LogReader(<<seg>>, dk)
     IN /\ seg' = r.segs[1]
        /\ dk' = r.dk
        /\ disk' = DirOf(r.segs)
        /\ segLast' = [NoCall EXCEPT !.op = "Reader", !.err = r.err,
                                     !.record = r.b,
                                     !.before = seg, !.after = r.segs[1]]
  /\ UNCHANGED <<config, segments, open, appends, reopens, truncs, hist,
                 lastRet, lastTrunc, fresh, segState, segHist, segFails,
                 storeVars, concVars>>

SegmentClose ==
  /\ segState = "open"
  /\ LET r == SegClose(seg, dk)
     IN /\ seg' = r.s
        /\ dk' = r.dk
        /\ disk' = DirOf(<<r.s>>)
        /\ segLast' = [NoCall EXCEPT !.op = "Close", !.err = r.err,
                                     !.calls = r.calls,
                                     !.before = seg, !.after = r.s]
  /\ segState' = "closed"
  /\ UNCHANGED <<config, segments, open, appends, reopens, truncs, hist,
                 lastRet, lastTrunc, fresh, segHist, segFails, storeVars,
                 concVars>>

SegmentRemove ==
  /\ segState = "open"
  /\ LET r == SegRemove(seg, dk)
     IN /\ seg' = r.s
        /\ dk' = r.dk
        /\ disk' = IF r.removed THEN DirOf(<<>>) ELSE DirOf(<<r.s>>)
        /\ segState' = IF r.removed THEN "removed" ELSE "closed"
        /\ segLast' = [NoCall EXCEPT !.op = "Remove", !.err = r.err,
                                     !.calls = r.calls, !.removed = r.removed,
                                     !.before = seg, !.after = r.s]
  /\ UNCHANGED <<config, segments, open, appends, reopens, truncs, hist,
                 lastRet, lastTrunc, fresh, segHist, segFails, storeVars,
                 concVars>>

\* newSegment on the files in the directory, with the same baseOffset.
SegmentOpen(c) ==
  /\ segState # "open" /\ reopens < MaxReopens
  /\ c.InitialOffset = config.InitialOffset
  /\ config' = c
  /\ seg' = newSegment(disk, c.InitialOffset, c)
  /\ disk' = DirOf(<<seg'>>)
  /\ segState' = "open"
  /\ segHist' = IF segState = "removed" THEN <<>> ELSE segHist
  /\ segFails' = IF segState = "removed" THEN <<>> ELSE segFails
  /\ segLast' = [NoCall EXCEPT !.op = "Open", !.before = seg, !.after = seg']
  /\ reopens' = reopens + 1
  /\ UNCHANGED <<dk, segments, open, appends, truncs, hist, lastRet, lastTrunc,
                 fresh, storeVars, concVars>>

NextSegment ==
  \/ \E v \in Values : SegmentAppend(v)
  \/ \E off \in SegOffsets : SegmentRead(off)
  \/ SegmentReader
  \/ SegmentClose
  \/ SegmentRemove
  \/ \E c \in SegConfigs : SegmentOpen(c)

SpecSegment == InitSegment /\ [][NextSegment]_vars

(***************************************************************************)
(* SpecStoreConc: two callers of one store, each call a sequence of steps  *)
(* (the statements of store.go) between s.mu.Lock() and the deferred       *)
(* s.mu.Unlock().                                                          *)
(***************************************************************************)
ConcPayloads == {<<1, 2>>, <<3, 4, 5, 6, 7>>}

ConcPositions == {0, 10, 13}

\* s.mu.Lock() skipped: the caller goes on whoever holds the mutex.
Lock_noMutex(self) == mu' = mu

\* s.mu.Lock(): blocks while another caller holds the mutex.
Lock(self) == mu = 0 /\ mu' = self

\* defer s.mu.Unlock()
Unlock(self) == mu' = 0

\* A caller goes from one statement to the next, or returns.
Goto(self, label) == pc' = [pc EXCEPT ![self] = label]

InitStoreConc ==
  /\ config \in {c \in Configs : c.InitialOffset = 2}
  /\ disk = DirOf(<<>>)
  /\ dk = NoLimit
  /\ LogIdle /\ StoreIdle /\ SegIdle /\ ConcIdle

\* A caller calls store.Append(p).
AppendCall(self, p) ==
  /\ pc[self] = "idle" /\ scalls < MaxConcAppends
  /\ scalls' = scalls + 1
  /\ loc' = [loc EXCEPT ![self] = [NoLocal EXCEPT !.op = "Append", !.p = p]]
  /\ Goto(self, "Append:Lock")
  /\ UNCHANGED <<logVars, segVars, dk, st, sret, sread, sfail, sinit, mu>>

\* s.mu.Lock(); pos = s.size
AppendLock(self) ==
  /\ pc[self] = "Append:Lock"
  /\ Lock(self)
  /\ loc' = [loc EXCEPT ![self].pos = st.size]
  /\ Goto(self, "Append:binary.Write")
  /\ UNCHANGED <<logVars, segVars, dk, storeVars>>

\* binary.Write(s.buf, enc, uint64(len(p)))
AppendLen(self) ==
  /\ pc[self] = "Append:binary.Write"
  /\ LET w == BufWrite(st, dk, PutUint64(Len(loc[self].p)))
     IN /\ st' = w.st
        /\ dk' = w.dk
        /\ IF w.err # Nil
           THEN /\ loc' = [loc EXCEPT ![self].err = w.err]
                /\ Unlock(self) /\ Goto(self, "idle")
           ELSE /\ Goto(self, "Append:buf.Write")
                /\ UNCHANGED <<loc, mu>>
  /\ UNCHANGED <<logVars, segVars, sret, scalls, sread, sfail, sinit>>

\* w, err := s.buf.Write(p)
AppendWrite(self) ==
  /\ pc[self] = "Append:buf.Write"
  /\ LET w == BufWrite(st, dk, loc[self].p)
     IN /\ st' = w.st
        /\ dk' = w.dk
        /\ IF w.err # Nil
           THEN /\ loc' = [loc EXCEPT ![self].err = w.err]
                /\ Unlock(self) /\ Goto(self, "idle")
           ELSE /\ loc' = [loc EXCEPT ![self].n = Len(loc[self].p)]
                /\ Goto(self, "Append:size")
                /\ UNCHANGED mu
  /\ UNCHANGED <<logVars, segVars, sret, scalls, sread, sfail, sinit>>

\* w += lenWidth; s.size += uint64(w); return uint64(w), pos, nil
AppendSize(self) ==
  /\ pc[self] = "Append:size"
  /\ st' = [st EXCEPT !.size = @ + loc[self].n + lenWidth]
  /\ sret' = Append(sret, [pos |-> loc[self].pos, n |-> loc[self].n + lenWidth,
                           p |-> loc[self].p, before |-> st.size,
                           after |-> st'.size])
  /\ loc' = [loc EXCEPT ![self].n = loc[self].n + lenWidth]
  /\ Unlock(self) /\ Goto(self, "idle")
  /\ UNCHANGED <<logVars, segVars, dk, scalls, sread, sfail, sinit>>

\* A caller calls store.Read(pos).
ReadCall(self, pos) ==
  /\ pc[self] = "idle"
  /\ loc' = [loc EXCEPT ![self] = [NoLocal EXCEPT !.op = "Read", !.pos = pos]]
  /\ Goto(self, "Read:Lock")
  /\ UNCHANGED <<logVars, segVars, dk, storeVars, mu>>

\* s.mu.Lock()
ReadLock(self) ==
  /\ pc[self] = "Read:Lock"
  /\ Lock(self)
  /\ loc' = [loc EXCEPT ![self].seen = Len(sret)]
  /\ Goto(self, "Read:Flush")
  /\ UNCHANGED <<logVars, segVars, dk, storeVars>>

\* s.buf.Flush()
ReadFlush(self) ==
  /\ pc[self] = "Read:Flush"
  /\ LET f == BufFlush(st, dk)
     IN /\ st' = f.st
        /\ dk' = f.dk
        /\ IF f.err # Nil
           THEN /\ loc' = [loc EXCEPT ![self].err = f.err]
                /\ Unlock(self) /\ Goto(self, "idle")
           ELSE /\ Goto(self, "Read:size")
                /\ UNCHANGED <<loc, mu>>
  /\ UNCHANGED <<logVars, segVars, sret, scalls, sread, sfail, sinit>>

\* s.File.ReadAt(size, int64(pos))
ReadLen(self) ==
  /\ pc[self] = "Read:size"
  /\ LET size == FileReadAt(st.file, st.closed, lenWidth, loc[self].pos)
     IN IF size.err # Nil
        THEN /\ loc' = [loc EXCEPT ![self].err = size.err]
             /\ Unlock(self) /\ Goto(self, "idle")
        ELSE /\ loc' = [loc EXCEPT ![self].n = Uint64(size.b)]
             /\ Goto(self, "Read:b")
             /\ UNCHANGED mu
  /\ UNCHANGED <<logVars, segVars, dk, storeVars>>

\* b := make([]byte, enc.Uint64(size)); s.File.ReadAt(b, int64(pos+lenWidth))
ReadBody(self) ==
  /\ pc[self] = "Read:b"
  /\ LET b == FileReadAt(st.file, st.closed, loc[self].n,
                         loc[self].pos + lenWidth)
     IN loc' = [loc EXCEPT ![self].err = b.err,
                           ![self].b = IF b.err = Nil THEN b.b ELSE <<>>]
  /\ Unlock(self) /\ Goto(self, "idle")
  /\ UNCHANGED <<logVars, segVars, dk, storeVars>>

\* A caller calls store.ReadAt(p, off), len(p) = n.
ReadAtCall(self, n, off) ==
  /\ pc[self] = "idle"
  /\ loc' = [loc EXCEPT ![self] = [NoLocal EXCEPT !.op = "ReadAt", !.n = n,
                                                  !.pos = off]]
  /\ Goto(self, "ReadAt:Lock")
  /\ UNCHANGED <<logVars, segVars, dk, storeVars, mu>>

\* s.mu.Lock()
ReadAtLock(self) ==
  /\ pc[self] = "ReadAt:Lock"
  /\ Lock(self)
  /\ Goto(self, "ReadAt:Flush")
  /\ UNCHANGED <<logVars, segVars, dk, storeVars, loc>>

\* s.buf.Flush()
ReadAtFlush(self) ==
  /\ pc[self] = "ReadAt:Flush"
  /\ LET f == BufFlush(st, dk)
     IN /\ st' = f.st
        /\ dk' = f.dk
        /\ IF f.err # Nil
           THEN /\ loc' = [loc EXCEPT ![self].err = f.err]
                /\ Unlock(self) /\ Goto(self, "idle")
           ELSE /\ Goto(self, "ReadAt:ReadAt")
                /\ UNCHANGED <<loc, mu>>
  /\ UNCHANGED <<logVars, segVars, sret, scalls, sread, sfail, sinit>>

\* return s.File.ReadAt(p, off)
ReadAtRead(self) ==
  /\ pc[self] = "ReadAt:ReadAt"
  /\ LET r == FileReadAt(st.file, st.closed, loc[self].n, loc[self].pos)
     IN loc' = [loc EXCEPT ![self].err = r.err, ![self].b = r.b]
  /\ Unlock(self) /\ Goto(self, "idle")
  /\ UNCHANGED <<logVars, segVars, dk, storeVars>>

\* A caller calls store.Close().
CloseCall(self) ==
  /\ pc[self] = "idle"
  /\ loc' = [loc EXCEPT ![self] = [NoLocal EXCEPT !.op = "Close"]]
  /\ Goto(self, "Close:Lock")
  /\ UNCHANGED <<logVars, segVars, dk, storeVars, mu>>

\* s.mu.Lock()
CloseLock(self) ==
  /\ pc[self] = "Close:Lock"
  /\ Lock(self)
  /\ Goto(self, "Close:Flush")
  /\ UNCHANGED <<logVars, segVars, dk, storeVars, loc>>

\* err := s.buf.Flush()
CloseFlush(self) ==
  /\ pc[self] = "Close:Flush"
  /\ LET f == BufFlush(st, dk)
     IN /\ st' = f.st
        /\ dk' = f.dk
        /\ IF f.err # Nil
           THEN /\ loc' = [loc EXCEPT ![self].err = f.err]
                /\ Unlock(self) /\ Goto(self, "idle")
           ELSE /\ Goto(self, "Close:File.Close")
                /\ UNCHANGED <<loc, mu>>
  /\ UNCHANGED <<logVars, segVars, sret, scalls, sread, sfail, sinit>>

\* return s.File.Close()
CloseFile(self) ==
  /\ pc[self] = "Close:File.Close"
  /\ st' = [st EXCEPT !.closed = TRUE]
  /\ loc' = [loc EXCEPT ![self].err = IF st.closed THEN ErrClosed ELSE Nil]
  /\ Unlock(self) /\ Goto(self, "idle")
  /\ UNCHANGED <<logVars, segVars, dk, sret, scalls, sread, sfail, sinit>>

NextStoreConc ==
  \E self \in Procs :
    \/ \E p \in ConcPayloads : AppendCall(self, p)
    \/ AppendLock(self)
    \/ AppendLen(self)
    \/ AppendWrite(self)
    \/ AppendSize(self)
    \/ \E pos \in ConcPositions : ReadCall(self, pos)
    \/ ReadLock(self)
    \/ ReadFlush(self)
    \/ ReadLen(self)
    \/ ReadBody(self)
    \/ \E off \in {0, 8} : ReadAtCall(self, 3, off)
    \/ ReadAtLock(self)
    \/ ReadAtFlush(self)
    \/ ReadAtRead(self)
    \/ CloseCall(self)
    \/ CloseLock(self)
    \/ CloseFlush(self)
    \/ CloseFile(self)

SpecStoreConc == InitStoreConc /\ [][NextStoreConc]_vars

(***************************************************************************)
(* SpecLogConc: two callers of Log.Append on one Log.  Log.Append holds    *)
(* the Log's lock from its first statement to its return; between them it  *)
(* runs the statements of segment.Append on the active segment and the     *)
(* rotation.                                                               *)
(***************************************************************************)
\* l.mu.Lock(): blocks while another caller holds the Log's lock.
LogLock(self) == mu = 0 /\ mu' = self

\* defer l.mu.Unlock()
LogUnlock(self) == mu' = 0

InitLogConc ==
  /\ config \in Configs
  /\ segments = LogSetup(DirOf(<<>>), config)
  /\ disk = DirOf(segments)
  /\ open = TRUE
  /\ dk = NoLimit
  /\ appends = 0 /\ reopens = 0 /\ truncs = 0
  /\ hist = <<>> /\ lastRet = NoRet /\ lastTrunc = NoTrunc /\ fresh = FALSE
  /\ StoreIdle /\ SegIdle /\ ConcIdle

\* A caller calls Log.Append(record), record.Value = v.
LogAppendCall(self, v) ==
  /\ pc[self] = "idle" /\ appends < MaxConcAppends
  /\ appends' = appends + 1
  /\ loc' = [loc EXCEPT ![self] = [NoLocal EXCEPT !.op = "LogAppend", !.b = v]]
  /\ Goto(self, "LogAppend:Lock")
  /\ UNCHANGED <<config, segments, open, disk, dk, reopens, truncs, hist,
                 lastRet, lastTrunc, fresh, storeVars, segVars, mu>>

\* Log.Append: l.mu.Lock()
LogAppendLock(self) ==
  /\ pc[self] = "LogAppend:Lock"
  /\ LogLock(self)
  /\ Goto(self, "LogAppend:cur")
  /\ UNCHANGED <<logVars, dk, storeVars, segVars, loc>>

\* segment.Append: cur := s.nextOffset; record.Offset = cur;
\* p, err := proto.Marshal(record)
LogAppendCur(self) ==
  /\ pc[self] = "LogAppend:cur"
  /\ loc' = [loc EXCEPT
               ![self].cur = Active(segments).nextOffset,
               ![self].p = Marshal([Value |-> loc[self].b,
                                    Offset |-> Active(segments).nextOffset])]
  /\ Goto(self, "LogAppend:store.Append")
  /\ UNCHANGED <<logVars, dk, storeVars, segVars, mu>>

\* segment.Append: _, pos, err := s.store.Append(p)
LogAppendStore(self) ==
  /\ pc[self] = "LogAppend:store.Append"
  /\ LET a == StoreAppend(Active(segments).store, dk, loc[self].p)
     IN /\ segments' = [segments EXCEPT ![Len(segments)].store = a.st]
        /\ dk' = a.dk
        /\ disk' = DirOf(segments')
        /\ loc' = [loc EXCEPT ![self].a = a, ![self].err = a.err]
        /\ IF a.err # Nil
           THEN LogUnlock(self) /\ Goto(self, "idle")
           ELSE Goto(self, "LogAppend:index.Write") /\ UNCHANGED mu
  /\ UNCHANGED <<config, open, appends, reopens, truncs, hist, lastRet,
                 lastTrunc, fresh, storeVars, segVars>>

\* segment.Append: s.index.Write(uint32(s.nextOffset-s.baseOffset), pos);
\* s.nextOffset++; return cur.  Log.Append: the rotation when the active
\* segment IsMaxed; return.
LogAppendIndex(self) ==
  /\ pc[self] = "LogAppend:index.Write"
  /\ LET r == SegAppendStored(Active(segments),
                              [loc[self].a EXCEPT !.st = Active(segments).store,
                                                  !.dk = dk])
         l == LogAppended(segments, [r EXCEPT !.offset = IF r.err = Nil
                                                        THEN loc[self].cur
                                                        ELSE 0])
     IN /\ segments' = l.segs
        /\ dk' = l.dk
        /\ disk' = DirOf(l.segs)
        /\ loc' = [loc EXCEPT ![self].err = l.err, ![self].pos = l.off]
        /\ hist' = IF l.err = Nil
                   THEN Append(hist, [off |-> l.off, value |-> loc[self].b,
                                      by |-> self])
                   ELSE hist
  /\ LogUnlock(self) /\ Goto(self, "idle")
  /\ UNCHANGED <<config, open, appends, reopens, truncs, lastRet, lastTrunc,
                 fresh, storeVars, segVars>>

NextLogConc ==
  \E self \in Procs :
    \/ \E v \in Values : LogAppendCall(self, v)
    \/ LogAppendLock(self)
    \/ LogAppendCur(self)
    \/ LogAppendStore(self)
    \/ LogAppendIndex(self)

SpecLogConc == InitLogConc /\ [][NextLogConc]_vars

(***************************************************************************)
(* Properties of the Log (Spec).                                           *)
(***************************************************************************)
\* A read that returned the record appended at off with value v.
ReadsBack(r, off, v) ==
  r.err = Nil /\ r.record.Value = v /\ r.record.Offset = off

\* The argument of the last Log.Truncate.
floor == lastTrunc.lowest

\* The offsets the successful Appends returned.
Appended == {hist[i].off : i \in 1..Len(hist)}

\* The offset the next successful Append is due: none assigned yet at or above.
NextUnassigned == config.InitialOffset + Len(hist)

\* C1 (round trip): in every state of an open Log, Log.Read of the offset a
\* successful Log.Append returned gives back a record with the appended value
\* and with that offset in its Offset field, for every appended record the
\* Log still retains, whichever segment holds it.
C1_RoundTrip ==
  open =>
    \A i \in 1..Len(hist) :
      hist[i].off >= LowestOffset(segments) =>
        ReadsBack(LogReadAt(segments, dk, hist[i].off), hist[i].off,
                  hist[i].value)

\* Three records read back from two segments, the newest of them while its
\* bytes are still in the store's write buffer.
C1_Witness ==
  /\ open /\ truncs = 0 /\ Len(hist) >= 3 /\ Len(segments) >= 2
  /\ Owner(segments, hist[1].off) = 1
  /\ Owner(segments, hist[Len(hist)].off) = 2
  /\ segments[2].store.buf # <<>>
  /\ hist[Len(hist)].value # <<>>
  /\ \A i \in 1..Len(hist) :
       ReadsBack(LogReadAt(segments, dk, hist[i].off), hist[i].off,
                 hist[i].value)

\* C2 (monotonicity): the offsets the successful Log.Appends returned are, in
\* order, InitialOffset, InitialOffset + 1, ... (0, 1, 2, ... on a log that
\* starts at 0), and a successful segment.Append returns the nextOffset the
\* segment had before the call and leaves it one higher.
C2_Monotonic ==
  /\ \A i \in 1..Len(hist) : hist[i].off = config.InitialOffset + i - 1
  /\ (config.InitialOffset = 0 => \A i \in 1..Len(hist) : hist[i].off = i - 1)
  /\ (appends > 0 /\ lastRet.err = Nil) =>
       /\ lastRet.off = lastRet.before
       /\ lastRet.after = lastRet.before + 1

\* Offsets 0, 1, 2 were returned on a log starting at 0.
C2_Witness ==
  /\ config.InitialOffset = 0 /\ Len(hist) = 3
  /\ hist[3].off = 2 /\ lastRet.err = Nil /\ lastRet.after = 3

\* The nextOffset newSegment recovers from the index.
Recovered(s) ==
  IF s.index.ents = <<>> THEN s.baseOffset
  ELSE s.baseOffset + s.index.ents[Len(s.index.ents)].off + 1

\* C3 (reopen recovery): once the Log was closed and reopened on the same
\* files, every segment's nextOffset is baseOffset + the last index entry's
\* relative offset + 1, or baseOffset for an empty index; before any further
\* Append the active segment's nextOffset is the highest offset returned so
\* far + 1; the first Append after the reopen returns the previous highest
\* offset + 1; and every retained record reads back with its value.
C3_ReopenRecovery ==
  (open /\ reopens > 0) =>
    /\ \A i \in 1..Len(segments) : segments[i].nextOffset = Recovered(segments[i])
    /\ (fresh /\ hist # <<>>) =>
         Active(segments).nextOffset = hist[Len(hist)].off + 1
    /\ (fresh /\ hist = <<>>) =>
         Active(segments).nextOffset = config.InitialOffset
    /\ (lastRet.fresh /\ lastRet.err = Nil /\ Len(hist) >= 2) =>
         hist[Len(hist)].off = hist[Len(hist) - 1].off + 1
    /\ \A i \in 1..Len(hist) :
         hist[i].off >= LowestOffset(segments) =>
           ReadsBack(LogReadAt(segments, dk, hist[i].off), hist[i].off,
                     hist[i].value)

\* After a reopen of two segments, the older one holding two records, an
\* Append returned the next offset.
C3_Witness ==
  /\ open /\ reopens > 0 /\ truncs = 0
  /\ lastRet.fresh /\ lastRet.err = Nil /\ Len(hist) = 3
  /\ Len(segments) >= 2
  /\ segments[1].nextOffset = segments[1].baseOffset + 2
  /\ hist[3].off = hist[2].off + 1
  /\ ReadsBack(LogReadAt(segments, dk, hist[1].off), hist[1].off, hist[1].value)

\* C4 (rotation keeps the ranges contiguous): in every state of an open Log
\* each segment has baseOffset <= nextOffset and starts where the segment
\* before it ends, so the ranges are in ascending order, contiguous and
\* disjoint; in particular the segment Log.Append creates starts at the
\* filled segment's nextOffset; and the first Append into a segment succeeds.
C4_Contiguous ==
  open =>
    /\ \A i \in 1..Len(segments) :
         segments[i].baseOffset <= segments[i].nextOffset
    /\ \A i \in 1..(Len(segments) - 1) :
         /\ segments[i + 1].baseOffset = segments[i].nextOffset
         /\ segments[i].baseOffset < segments[i + 1].baseOffset
    /\ (appends > 0 /\ lastRet.first) => lastRet.err = Nil

\* The store cap filled a segment and an Append went into the segment created
\* at its nextOffset.
C4_Witness ==
  /\ open /\ Len(segments) = 2
  /\ segments[1].store.size >= config.MaxStoreBytes
  /\ segments[1].index.size < config.MaxIndexBytes
  /\ segments[2].baseOffset = segments[1].nextOffset
  /\ lastRet.first /\ lastRet.err = Nil
  /\ lastRet.off = segments[2].baseOffset

\* C5 (either cap alone triggers rotation): IsMaxed holds exactly when the
\* store's size has reached MaxStoreBytes or the index's size has reached
\* MaxIndexBytes, and no open Log is left with a maxed active segment after
\* a successful Append; with MaxIndexBytes of exactly two entries no segment
\* holds more than two records, and the third record is in a new segment.
C5_EitherCap ==
  open =>
    /\ \A i \in 1..Len(segments) :
         IsMaxed(segments[i]) <=>
           (\/ segments[i].store.size >= config.MaxStoreBytes
            \/ segments[i].index.size >= config.MaxIndexBytes)
    /\ (appends > 0 /\ lastRet.err = Nil) => ~IsMaxed(Active(segments))
    /\ config.MaxIndexBytes = 2 * entWidth =>
         /\ \A i \in 1..Len(segments) :
              /\ Len(segments[i].index.ents) <= 2
              /\ segments[i].nextOffset - segments[i].baseOffset <= 2
         /\ (Len(hist) >= 3 /\ truncs = 0) =>
              /\ Owner(segments, hist[1].off) = 1
              /\ Owner(segments, hist[2].off) = 1
              /\ Owner(segments, hist[3].off) = 2

\* With an index cap of two entries and a store cap out of reach, a third
\* record was appended.
C5_Witness ==
  /\ open /\ config.MaxIndexBytes = 2 * entWidth /\ Len(hist) = 3
  /\ \A i \in 1..Len(segments) :
       segments[i].store.size < config.MaxStoreBytes
  /\ Owner(segments, hist[3].off) = 2

C7_OutOfRange ==
  open =>
    /\ ~HighestOffset(segments).empty =>
         LogReadAt(segments, dk, HighestOffset(segments).off + 1).err
           = ErrNotFound
    /\ \A off \in Offsets :
         /\ (off < LowestOffset(segments) \/ off >= NextUnassigned) =>
              LogReadAt(segments, dk, off).err = ErrNotFound
         /\ off \notin Appended => LogReadAt(segments, dk, off).err # Nil

\* A Log that holds records in two segments, the oldest of them truncated
\* away: reads below the floor and above the highest offset are not found.
C7_Witness ==
  /\ open /\ Len(hist) >= 3 /\ Len(segments) >= 2
  /\ LowestOffset(segments) > config.InitialOffset
  /\ ~HighestOffset(segments).empty
  /\ HighestOffset(segments).off + 1 \in Offsets
  /\ LogReadAt(segments, dk, HighestOffset(segments).off + 1).err = ErrNotFound
  /\ LogReadAt(segments, dk, config.InitialOffset).err = ErrNotFound
  /\ LogReadAt(segments, dk, HighestOffset(segments).off).err = Nil

\* C10 (offset bounds): in every state of an open Log LowestOffset() is the
\* baseOffset of the oldest retained segment, no retained segment or record
\* lying below it; while the Log holds a record HighestOffset() is the active
\* segment's nextOffset - 1, the offset the most recent successful Append
\* returned; a Log that holds no record returns the empty-log sentinel, and
\* it holds none only if nothing was appended or a Truncate removed it.
C10_OffsetBounds ==
  open =>
    /\ LowestOffset(segments) = segments[1].baseOffset
    /\ \A i \in 1..Len(segments) :
         LowestOffset(segments) <= segments[i].baseOffset
    /\ \A i \in 1..Len(hist) :
         Owner(segments, hist[i].off) # 0 =>
           LowestOffset(segments) <= hist[i].off
    /\ IF HighestOffset(segments).empty
       THEN /\ HighestOffset(segments).off = 0
            /\ (hist = <<>> \/ truncs > 0)
            /\ \A i \in 1..Len(hist) : Owner(segments, hist[i].off) = 0
       ELSE /\ hist # <<>>
            /\ HighestOffset(segments).off = Active(segments).nextOffset - 1
            /\ HighestOffset(segments).off = hist[Len(hist)].off

\* After a rotation and a Truncate that removed the oldest segment, the
\* bounds are the kept segment's baseOffset and the last offset returned.
C10_Witness ==
  /\ open /\ Len(hist) >= 3 /\ truncs > 0
  /\ LowestOffset(segments) > config.InitialOffset
  /\ ~HighestOffset(segments).empty
  /\ HighestOffset(segments).off = lastRet.off
  /\ lastRet.err = Nil
  /\ Active(segments).nextOffset = Active(segments).baseOffset

(***************************************************************************)
(* Properties of the Store (SpecStore).                                    *)
(***************************************************************************)
\* A flush of the store's write buffer would succeed.
CanFlush ==
  /\ st.err = Nil /\ ~st.closed
  /\ (dk.limited => Len(st.buf) <= dk.free)

\* C8 (store read-after-write): for every store.Append(p) that returned pos
\* without error, in every later state of the open store, store.Read(pos)
\* returns exactly p unless its flush of the write buffer fails, in which
\* case it returns that error; and it fails only then.  The last store.Read
\* that returned bytes at a position an Append had returned, returned that
\* Append's p.
C8_ReadAfterWrite ==
  /\ \A i \in 1..Len(sret) :
       /\ StoreRead(st, dk, sret[i].pos).err = Nil =>
            StoreRead(st, dk, sret[i].pos).b = sret[i].p
       /\ CanFlush => StoreRead(st, dk, sret[i].pos).err = Nil
       /\ (sread.err = Nil /\ sread.pos = sret[i].pos) => sread.b = sret[i].p

\* A Read returned the payload of the second of two Appends, a third Append
\* has followed, and its bytes are still buffered.
C8_Witness ==
  /\ Len(sret) = 3 /\ CanFlush /\ st.buf # <<>>
  /\ sread.err = Nil /\ sread.pos = sret[2].pos /\ sread.b = sret[2].p
  /\ sread.b # <<>>
  /\ StoreRead(st, dk, sret[3].pos).b = sret[3].p

\* C9 (store size invariant), as the claim states it: in every reachable
\* state of a store, size is the length of the file plus the number of bytes
\* still buffered.
C9_SizeInvariant ==
  st.size = Len(st.file) + Len(st.buf)

\* The segments Truncate(lowest) is to keep, in order: the active one and
\* every one whose range reaches above lowest.
Kept(segs, lowest) ==
  SelectSeq(segs, LAMBDA x : \/ x.baseOffset = Active(segs).baseOffset
                             \/ x.nextOffset > lowest)

\* C16 (Truncate removal rule): in every state of an open Log and for every
\* lowest, Truncate(lowest) succeeds and leaves exactly the segments that
\* are active or end above lowest, with their files and no others, so it
\* removes the segments with nextOffset <= lowest that are not active and
\* none that holds an offset >= lowest; the active segment stays the active
\* one; and the Append that follows returns the offset next to the highest
\* assigned so far, and succeeds whenever MaxIndexBytes is a whole number of
\* entries.
C16_TruncateRule ==
  open =>
    \A lowest \in Lowests :
      LET t == LogTruncateTo(segments, dk, lowest)
      IN /\ t.err = Nil
         /\ t.segs = Kept(segments, lowest)
         /\ Len(t.segs) >= 1
         /\ Active(t.segs) = Active(segments)
         /\ \A i \in 1..Len(segments) :
              (\A j \in 1..Len(t.segs) :
                 t.segs[j].baseOffset # segments[i].baseOffset) =>
                /\ segments[i].nextOffset <= lowest
                /\ i < Len(segments)
         /\ DOMAIN DirOf(t.segs)
              = {segments[i].baseOffset : i \in
                   {j \in 1..Len(segments) : \/ j = Len(segments)
                                             \/ segments[j].nextOffset > lowest}}
         /\ \A v \in Values :
              LET a == LogAppendTo(t.segs, t.dk, [Value |-> v, Offset |-> 0])
              IN /\ a.err = Nil => a.off = NextUnassigned
                 /\ config.MaxIndexBytes % entWidth = 0 => a.err = Nil

\* Truncate above every assigned offset removed the older segment and kept
\* the active, empty one; the Append after it returned the next offset.
C16_Witness ==
  /\ open /\ truncs > 0 /\ floor = MaxAppends + 2
  /\ lastTrunc.kept = 1
  /\ LowestOffset(segments) > config.InitialOffset
  /\ Len(hist) = 3 /\ lastRet.err = Nil
  /\ lastRet.off = lastTrunc.oldestNext
  /\ lastRet.off = hist[2].off + 1
  /\ floor > lastRet.off

(***************************************************************************)
(* Properties of the Segment (SpecSegment) and of the Log's capacity.      *)
(***************************************************************************)
\* C11 (segment.Read out of range), as the claim states it: segment.Read of
\* every offset outside [baseOffset, nextOffset), below baseOffset or at or
\* above nextOffset, returns an error and no record.
C11_Original ==
  segState = "open" =>
    \A off \in SegOffsets :
      (off < seg.baseOffset \/ off >= seg.nextOffset) =>
        /\ SegRead(seg, dk, off).err # Nil
        /\ SegRead(seg, dk, off).record = <<>>

\* C12 (capacity), as the claim states it: whatever MaxIndexBytes of at least
\* one entry is configured, a Log.Append into an active segment for which
\* IsMaxed is false never fails with the index out of mapped capacity.
C12_Original ==
  open =>
    \A v \in Values :
      ~IsMaxed(Active(segments)) =>
        LogAppendTo(segments, dk, [Value |-> v, Offset |-> 0]).err # EOF

\* The frame store.Append writes for the record appended with value v at off.
Frame(v, off) ==
  PutUint64(Len(Marshal([Value |-> v, Offset |-> off])))
    \o Marshal([Value |-> v, Offset |-> off])

\* The bytes of a store in the order they were appended: the file's, then
\* the write buffer's.
Content(store) == store.file \o store.buf

\* C13 (partial append): when segment.Append's store append succeeded and its
\* index write failed, Append returned offset 0 and the error, nextOffset and
\* the index are as before the call and the store kept the entry, its size
\* grown by the frame; the offset the failed call would have had is the one
\* the next successful Append on the segment returns, and segment.Read of it
\* returns the record of that later Append, never the orphan.
C13_PartialAppend ==
  /\ (segLast.op = "Append" /\ segLast.storeOK /\ segLast.err # Nil) =>
       /\ segFails # <<>>
       /\ segLast.off = 0
       /\ segLast.after.nextOffset = segLast.before.nextOffset
       /\ segLast.after.index = segLast.before.index
       /\ segLast.after.store.size
            = segLast.before.store.size
              + Len(Frame(segFails[Len(segFails)].value,
                          segFails[Len(segFails)].off))
       /\ Content(segLast.after.store)
            = Content(segLast.before.store)
              \o Frame(segFails[Len(segFails)].value,
                       segFails[Len(segFails)].off)
  /\ \A i \in 1..Len(segFails) :
       /\ segFails[i].off = seg.baseOffset + segFails[i].k
       /\ Len(segHist) > segFails[i].k =>
            /\ segHist[segFails[i].k + 1].off = segFails[i].off
            /\ segState = "open" =>
                 /\ SegRead(seg, dk, segFails[i].off).err = Nil =>
                      SegRead(seg, dk, segFails[i].off).record
                        = [Value |-> segHist[segFails[i].k + 1].value,
                           Offset |-> segFails[i].off]
                 /\ ~dk.limited => SegRead(seg, dk, segFails[i].off).err = Nil

\* An Append left an orphan in the store; a later Append with another value
\* returned the offset the failed one would have had, and a Read of that
\* offset returned the later record.
C13_Witness ==
  /\ segState = "open" /\ segFails # <<>>
  /\ Len(segHist) > segFails[1].k
  /\ segHist[segFails[1].k + 1].off = segFails[1].off
  /\ segHist[segFails[1].k + 1].value # segFails[1].value
  /\ segLast.op = "Read" /\ segLast.off = segFails[1].off /\ segLast.err = Nil
  /\ segLast.record.Value = segHist[segFails[1].k + 1].value

\* C14 (segment/index agreement): in every state of a segment nextOffset is
\* at least baseOffset and exceeds it by the number of index entries; the
\* i-th entry (0-based) holds relative offset i and the store position at
\* which the record with offset baseOffset + i begins, one entry for each
\* successful Append, in order; on a disk that never fails the store holds
\* that record's frame at that position.
C14_Agreement ==
  /\ seg.nextOffset >= seg.baseOffset
  /\ seg.nextOffset - seg.baseOffset = Len(seg.index.ents)
  /\ seg.index.size = entWidth * Len(seg.index.ents)
  /\ Len(segHist) = Len(seg.index.ents)
  /\ \A i \in 1..Len(seg.index.ents) :
       /\ seg.index.ents[i].off = i - 1
       /\ segHist[i].off = seg.baseOffset + i - 1
       /\ seg.index.ents[i].pos = segHist[i].pos
       /\ i > 1 => seg.index.ents[i].pos >= seg.index.ents[i - 1].pos
       /\ ~dk.limited =>
            SubSeq(Content(seg.store), segHist[i].pos + 1,
                   segHist[i].pos + Len(Frame(segHist[i].value, segHist[i].off)))
              = Frame(segHist[i].value, segHist[i].off)

\* A segment at base offset 2 that was closed and opened again holds two
\* records and, between them in the store, the orphan of a failed Append.
C14_Witness ==
  /\ segState = "open" /\ reopens > 0 /\ seg.baseOffset = 2
  /\ Len(seg.index.ents) = 2 /\ segFails # <<>> /\ segFails[1].k = 1
  /\ seg.nextOffset = 4
  /\ seg.index.ents[2].pos > seg.index.ents[1].pos
                              + Len(Frame(segHist[1].value, segHist[1].off))

\* C19 (Close / Remove ordering): segment.Close calls the index's Close
\* first and the store's Close after it; when Close returns without error
\* both are closed, the index file cut to its logical size and every byte
\* the store had buffered in the store file; segment.Remove deletes the two
\* files exactly when its Close succeeded, after it, and deletes neither
\* when Close returned an error.
C19_CloseRemove ==
  /\ segLast.op \in {"Close", "Remove"} =>
       /\ Len(segLast.calls) >= 1 /\ segLast.calls[1] = "index.Close"
       /\ Len(segLast.calls) >= 2 => segLast.calls[2] = "store.Close"
       /\ segLast.after.index.cap = segLast.after.index.size
       /\ segLast.err = Nil =>
            /\ Len(segLast.calls) >= 2
            /\ segLast.after.store.closed
            /\ segLast.after.store.buf = <<>>
            /\ segLast.after.store.file = Content(segLast.before.store)
       /\ segLast.err # Nil => ~segLast.after.store.closed
  /\ segLast.op = "Close" => Len(segLast.calls) <= 2
  /\ segLast.op = "Remove" =>
       /\ segLast.removed <=> segLast.err = Nil
       /\ segLast.removed =>
            /\ segLast.calls = <<"index.Close", "store.Close",
                                 "os.Remove(index)", "os.Remove(store)">>
            /\ DOMAIN disk = {}
       /\ ~segLast.removed =>
            /\ Len(segLast.calls) <= 2
            /\ seg.baseOffset \in DOMAIN disk
            /\ disk[seg.baseOffset].store = segLast.after.store.file
            /\ disk[seg.baseOffset].index = IndexFile(segLast.after.index)

\* Remove on a full disk with a record in the store's buffer: Close closed
\* the index, failed to flush the store, and Remove left both files.
C19_Witness ==
  /\ segLast.op = "Remove" /\ segLast.err = ENOSPC /\ ~segLast.removed
  /\ segLast.before.store.buf # <<>>
  /\ segLast.calls = <<"index.Close", "store.Close">>
  /\ seg.baseOffset \in DOMAIN disk
  /\ Len(disk[seg.baseOffset].index.ents) >= 1

\* What a read leaves as it was: the store's size and whether it is closed,
\* the bytes of the store in append order, the index, baseOffset, nextOffset
\* and the configuration.
ReadOnly(s, t) ==
  /\ t.store.size = s.store.size
  /\ t.store.closed = s.store.closed
  /\ Content(t.store) = Content(s.store)
  /\ t.index = s.index
  /\ t.baseOffset = s.baseOffset
  /\ t.nextOffset = s.nextOffset
  /\ t.config = s.config

RECURSIVE FramedBytes(_)
FramedBytes(k) ==
  IF k = 0 THEN 0 ELSE FramedBytes(k - 1) + lenWidth + Len(sret[k].p)

\* C15 (store position assignment): every successful store.Append(p)
\* returned the size the store had before the call as pos and 8 + len(p) as
\* the number of bytes written, and left the size 8 + len(p) higher; the
\* k-th successful Append returned the size at opening plus the framed bytes
\* of the k - 1 before it, so each frame begins where the one before it
\* ends; and the size is the size at opening plus all framed bytes.
C15_PositionAssignment ==
  /\ \A k \in 1..Len(sret) :
       /\ sret[k].pos = sret[k].before
       /\ sret[k].n = lenWidth + Len(sret[k].p)
       /\ sret[k].after = sret[k].before + lenWidth + Len(sret[k].p)
       /\ sret[k].pos = sinit + FramedBytes(k - 1)
       /\ k > 1 => sret[k].pos = sret[k - 1].pos + sret[k - 1].n
  /\ st.size = sinit + FramedBytes(Len(sret))

\* Three Appends of payloads of different lengths on a store opened on a
\* file that held a record: positions 9, 9 + 8 + len, ...
C15_Witness ==
  /\ sinit = 9 /\ Len(sret) = 3
  /\ Len(sret[1].p) = 5 /\ Len(sret[2].p) = 0 /\ Len(sret[3].p) = 2
  /\ sret[1].pos = 9 /\ sret[2].pos = 22 /\ sret[3].pos = 30
  /\ st.size = 40

(***************************************************************************)
(* Properties of concurrent callers (SpecStoreConc, SpecLogConc).          *)
(***************************************************************************)
\* The callers that are between a Lock and its Unlock.
Inside == {p \in Procs : pc[p] \notin {"idle", "Append:Lock", "Read:Lock",
                                       "ReadAt:Lock", "Close:Lock",
                                       "LogAppend:Lock"}}

\* C18 (store mutual exclusion): with callers running Append, Read, ReadAt
\* and Close on one store concurrently, at most one caller is between
\* s.mu.Lock() and Unlock at a time, and it is the holder of the mutex; the
\* Appends that returned got distinct positions, each frame
\* [pos, pos + 8 + len) beginning where the frame of the Append that
\* returned before it ends, the first at the size at opening, the last
\* ending at the store's size, with the frame's bytes at that position; and
\* a Read that returned bytes at the position of an Append returned that
\* Append's payload, and did return it if the Append had returned before the
\* Read took the mutex and the file was not closed.
C18_MutualExclusion ==
  /\ Cardinality(Inside) <= 1
  /\ \A p \in Procs : p \in Inside <=> mu = p
  /\ \A k \in 1..Len(sret) :
       /\ sret[k].n = lenWidth + Len(sret[k].p)
       /\ sret[k].pos = sinit + FramedBytes(k - 1)
       /\ \A j \in 1..(k - 1) : sret[j].pos + sret[j].n <= sret[k].pos
       /\ SubSeq(Content(st), sret[k].pos + 1, sret[k].pos + sret[k].n)
            = PutUint64(Len(sret[k].p)) \o sret[k].p
  /\ st.size = sinit + FramedBytes(Len(sret))
  /\ \A p \in Procs :
       (pc[p] = "idle" /\ loc[p].op = "Read") =>
         \A k \in 1..Len(sret) :
           loc[p].pos = sret[k].pos =>
             /\ loc[p].err = Nil => loc[p].b = sret[k].p
             /\ (k <= loc[p].seen /\ ~st.closed) => loc[p].err = Nil

\* Two Appends with different payloads have returned; one caller is inside
\* a Read that has flushed the buffer, while the other waits for the mutex
\* in a Read of its own.
C18_Witness ==
  /\ Len(sret) = 2 /\ sret[1].p # sret[2].p
  /\ pc[1] = "Read:size" /\ mu = 1
  /\ pc[2] = "Read:Lock"
  /\ st.buf = <<>> /\ Len(st.file) = st.size

=============================================================================
